---- MODULE Spec2Model ----
(***************************************************************************)
(* Model of package slack (src/slack.go): the Message / Attachment /       *)
(* AttachmentField JSON mapping and Client.Send.                           *)
(*                                                                         *)
(* Text is modelled as a sequence of symbols.  A symbol is a one-character *)
(* string for an ASCII character, "xFF" for a byte that is not valid UTF-8 *)
(* and "U+FFFD" for the (validly encoded) Unicode replacement rune.        *)
(* JSON output is a sequence of one-character strings.                     *)
(***************************************************************************)
EXTENDS Integers, Sequences, FiniteSets, TLC

(***************************************************************************)
(* Bounds of the model.                                                    *)
(***************************************************************************)
\* total number of symbols in the string fields of an attachment-free Message
MaxChars == 2
\* number of non-zero fields of an Attachment
MaxSetFields == 2
\* length of Attachment.Fields
MaxFields == 1


(***************************************************************************)
(* Small helpers.                                                          *)
(***************************************************************************)
RECURSIVE Flatten(_)
Flatten(ss) == IF ss = <<>> THEN <<>> ELSE Head(ss) \o Flatten(Tail(ss))

RECURSIVE Join(_)
\* the elements of ss separated by commas
Join(ss) ==
    IF ss = <<>> THEN <<>>
    ELSE IF Len(ss) = 1 THEN ss[1]
    ELSE ss[1] \o <<",">> \o Join(Tail(ss))

Map(Op(_), s) == [i \in 1..Len(s) |-> Op(s[i])]

(***************************************************************************)
(* encoding/json as used by json.NewEncoder(&b).Encode(message).           *)
(***************************************************************************)
\* one symbol of a Go string inside a JSON string literal (HTML escaping on)
EscapeSymbol(ch) ==
    CASE ch = "\"" -> <<"\\", "\"">>
      [] ch = "\\" -> <<"\\", "\\">>
      [] ch = "\n" -> <<"\\", "n">>
      [] ch = "<" -> <<"\\", "u", "0", "0", "3", "c">>
      [] ch = "xFF" -> <<"\\", "u", "f", "f", "f", "d">>
      [] ch = "U+FFFD" -> <<"U+FFFD">>
      [] OTHER -> <<ch>>

EncodeString(s) == <<"\"">> \o Flatten(Map(EscapeSymbol, s)) \o <<"\"">>

DigitChars == <<"0", "1", "2", "3", "4", "5", "6", "7", "8", "9">>

RECURSIVE FormatNat(_)
FormatNat(n) ==
    IF n < 10 THEN <<DigitChars[n + 1]>>
    ELSE FormatNat(n \div 10) \o <<DigitChars[(n % 10) + 1]>>

EncodeInt(n) == IF n < 0 THEN <<"-">> \o FormatNat(0 - n) ELSE FormatNat(n)

EncodeBool(v) ==
    IF v THEN <<"t", "r", "u", "e">> ELSE <<"f", "a", "l", "s", "e">>

EncodeArray(elems) == <<"[">> \o Join(elems) \o <<"]">>

\* one struct field: its key (the json tag), whether omitempty drops it, its value
Field(key, empty, enc) == [key |-> key, empty |-> empty, enc |-> enc]

NotEmpty(f) == ~f.empty

\* "omitempty": the fields that are written
Members(fields) == SelectSeq(fields, NotEmpty)

EncodeMember(f) == EncodeString(f.key) \o <<":">> \o f.enc

EncodeObject(fields) ==
    <<"{">> \o Join(Map(EncodeMember, Members(fields))) \o <<"}">>

(***************************************************************************)
(* The json tags of the struct fields, spelled as character sequences.     *)
(***************************************************************************)
K_username == <<"u", "s", "e", "r", "n", "a", "m", "e">>
K_channel == <<"c", "h", "a", "n", "n", "e", "l">>
K_icon_emoji == <<"i", "c", "o", "n", "_", "e", "m", "o", "j", "i">>
K_icon_url == <<"i", "c", "o", "n", "_", "u", "r", "l">>
K_text == <<"t", "e", "x", "t">>
K_attachments == <<"a", "t", "t", "a", "c", "h", "m", "e", "n", "t", "s">>
K_fallback == <<"f", "a", "l", "l", "b", "a", "c", "k">>
K_color == <<"c", "o", "l", "o", "r">>
K_pretext == <<"p", "r", "e", "t", "e", "x", "t">>
K_author_name == <<"a", "u", "t", "h", "o", "r", "_", "n", "a", "m", "e">>
K_author_link == <<"a", "u", "t", "h", "o", "r", "_", "l", "i", "n", "k">>
K_author_icon == <<"a", "u", "t", "h", "o", "r", "_", "i", "c", "o", "n">>
K_title == <<"t", "i", "t", "l", "e">>
K_title_link == <<"t", "i", "t", "l", "e", "_", "l", "i", "n", "k">>
K_fields == <<"f", "i", "e", "l", "d", "s">>
K_image_url == <<"i", "m", "a", "g", "e", "_", "u", "r", "l">>
K_thumb_url == <<"t", "h", "u", "m", "b", "_", "u", "r", "l">>
K_footer == <<"f", "o", "o", "t", "e", "r">>
K_footer_icon == <<"f", "o", "o", "t", "e", "r", "_", "i", "c", "o", "n">>
K_ts == <<"t", "s">>
K_mrkdwn_in == <<"m", "r", "k", "d", "w", "n", "_", "i", "n">>
K_value == <<"v", "a", "l", "u", "e">>
K_short == <<"s", "h", "o", "r", "t">>

(***************************************************************************)
(* The three structs, field by field in declaration order.                 *)
(***************************************************************************)
AttachmentFieldFieldsNoOmitShort(f) ==
    << Field(K_title, f.Title = <<>>, EncodeString(f.Title)),
       Field(K_value, f.Value = <<>>, EncodeString(f.Value)),
       Field(K_short, FALSE, EncodeBool(f.Short)) >>

AttachmentFieldFields(f) ==
    << Field(K_title, f.Title = <<>>, EncodeString(f.Title)),
       Field(K_value, f.Value = <<>>, EncodeString(f.Value)),
       Field(K_short, f.Short = FALSE, EncodeBool(f.Short)) >>

EncodeAttachmentField(f) == EncodeObject(AttachmentFieldFields(f))

AttachmentFields(a) ==
    << Field(K_fallback, a.Fallback = <<>>, EncodeString(a.Fallback)),
       Field(K_color, a.Color = <<>>, EncodeString(a.Color)),
       Field(K_pretext, a.Pretext = <<>>, EncodeString(a.Pretext)),
       Field(K_author_name, a.AuthorName = <<>>, EncodeString(a.AuthorName)),
       Field(K_author_link, a.AuthorLink = <<>>, EncodeString(a.AuthorLink)),
       Field(K_author_icon, a.AuthorIcon = <<>>, EncodeString(a.AuthorIcon)),
       Field(K_title, a.Title = <<>>, EncodeString(a.Title)),
       Field(K_title_link, a.TitleLink = <<>>, EncodeString(a.TitleLink)),
       Field(K_text, a.Text = <<>>, EncodeString(a.Text)),
       Field(K_fields, Len(a.Fields) = 0,
             EncodeArray(Map(EncodeAttachmentField, a.Fields))),
       Field(K_image_url, a.ImageURL = <<>>, EncodeString(a.ImageURL)),
       Field(K_thumb_url, a.ThumbURL = <<>>, EncodeString(a.ThumbURL)),
       Field(K_footer, a.Footer = <<>>, EncodeString(a.Footer)),
       Field(K_footer_icon, a.FooterIcon = <<>>, EncodeString(a.FooterIcon)),
       Field(K_ts, a.Timestamp = 0, EncodeInt(a.Timestamp)),
       Field(K_mrkdwn_in, Len(a.MrkdwnIn) = 0,
             EncodeArray(Map(EncodeString, a.MrkdwnIn))) >>

EncodeAttachment(a) == EncodeObject(AttachmentFields(a))

MessageFieldsDuplicateTag(m) ==
    << Field(K_username, m.Username = <<>>, EncodeString(m.Username)),
       Field(K_channel, m.Channel = <<>>, EncodeString(m.Channel)),
       Field(K_icon_url, m.IconEmoji = <<>>, EncodeString(m.IconEmoji)),
       Field(K_icon_url, m.IconURL = <<>>, EncodeString(m.IconURL)),
       Field(K_text, m.Text = <<>>, EncodeString(m.Text)),
       Field(K_attachments, Len(m.Attachments) = 0,
             EncodeArray(Map(EncodeAttachment, m.Attachments))) >>

MessageFields(m) ==
    << Field(K_username, m.Username = <<>>, EncodeString(m.Username)),
       Field(K_channel, m.Channel = <<>>, EncodeString(m.Channel)),
       Field(K_icon_emoji, m.IconEmoji = <<>>, EncodeString(m.IconEmoji)),
       Field(K_icon_url, m.IconURL = <<>>, EncodeString(m.IconURL)),
       Field(K_text, m.Text = <<>>, EncodeString(m.Text)),
       Field(K_attachments, Len(m.Attachments) = 0,
             EncodeArray(Map(EncodeAttachment, m.Attachments))) >>

\* json.Marshal of a Message
Marshal(m) == EncodeObject(MessageFields(m))

EncodeNoNewline(m) == Marshal(m)

\* (*json.Encoder).Encode: the JSON encoding followed by a newline character
Encode(m) == Marshal(m) \o <<"\n">>

(***************************************************************************)
(* encoding/json decoding, as used to read an encoded Message back         *)
(* (json.Unmarshal into a zero Message).  A parsed value is a record       *)
(* [t, v]: t is the JSON type, v the content.                              *)
(***************************************************************************)
Unescape(e) ==
    CASE e = "n" -> "\n"
      [] OTHER -> e

RuneOfHex(h) ==
    CASE h = <<"0", "0", "3", "c">> -> "<"
      [] h = <<"f", "f", "f", "d">> -> "U+FFFD"
      [] OTHER -> "?"

RECURSIVE ScanString(_, _, _)
\* s[i] is the first character after the opening quote
ScanString(s, i, acc) ==
    IF s[i] = "\"" THEN [v |-> acc, i |-> i + 1]
    ELSE IF s[i] = "\\" THEN
        IF s[i + 1] = "u"
        THEN ScanString(s, i + 6, Append(acc, RuneOfHex(SubSeq(s, i + 2, i + 5))))
        ELSE ScanString(s, i + 2, Append(acc, Unescape(s[i + 1])))
    ELSE ScanString(s, i + 1, Append(acc, s[i]))

DigitValue(ch) == (CHOOSE d \in 1..10 : DigitChars[d] = ch) - 1

IsDigit(ch) == \E d \in 1..10 : DigitChars[d] = ch

RECURSIVE ScanNat(_, _, _)
ScanNat(s, i, acc) ==
    IF i <= Len(s) /\ IsDigit(s[i])
    THEN ScanNat(s, i + 1, acc * 10 + DigitValue(s[i]))
    ELSE [v |-> acc, i |-> i]

ScanInt(s, i) ==
    IF s[i] = "-"
    THEN LET r == ScanNat(s, i + 1, 0) IN [v |-> 0 - r.v, i |-> r.i]
    ELSE ScanNat(s, i, 0)

RECURSIVE ParseValue(_, _)
RECURSIVE ParseElems(_, _, _)
RECURSIVE ParseMembers(_, _, _)

ParseValue(s, i) ==
    CASE s[i] = "\"" ->
            LET r == ScanString(s, i + 1, <<>>)
            IN  [v |-> [t |-> "str", v |-> r.v], i |-> r.i]
      [] s[i] = "{" ->
            LET r == ParseMembers(s, i + 1, <<>>)
            IN  [v |-> [t |-> "obj", v |-> r.v], i |-> r.i]
      [] s[i] = "[" ->
            LET r == ParseElems(s, i + 1, <<>>)
            IN  [v |-> [t |-> "arr", v |-> r.v], i |-> r.i]
      [] s[i] = "t" -> [v |-> [t |-> "bool", v |-> TRUE], i |-> i + 4]
      [] s[i] = "f" -> [v |-> [t |-> "bool", v |-> FALSE], i |-> i + 5]
      [] s[i] = "n" -> [v |-> [t |-> "null", v |-> <<>>], i |-> i + 4]
      [] OTHER ->
            LET r == ScanInt(s, i)
            IN  [v |-> [t |-> "num", v |-> r.v], i |-> r.i]

\* s[i] follows "[" or ","
ParseElems(s, i, acc) ==
    IF s[i] = "]" THEN [v |-> acc, i |-> i + 1]
    ELSE LET r == ParseValue(s, i)
         IN  IF s[r.i] = ","
             THEN ParseElems(s, r.i + 1, Append(acc, r.v))
             ELSE [v |-> Append(acc, r.v), i |-> r.i + 1]

\* s[i] follows "{" or ","
ParseMembers(s, i, acc) ==
    IF s[i] = "}" THEN [v |-> acc, i |-> i + 1]
    ELSE LET k == ScanString(s, i + 1, <<>>)
             r == ParseValue(s, k.i + 1)
             m == [k |-> k.v, v |-> r.v]
         IN  IF s[r.i] = ","
             THEN ParseMembers(s, r.i + 1, Append(acc, m))
             ELSE [v |-> Append(acc, m), i |-> r.i + 1]

RECURSIVE SkipSpace(_, _)
SkipSpace(s, i) ==
    IF i <= Len(s) /\ s[i] \in {" ", "\n"} THEN SkipSpace(s, i + 1) ELSE i

\* the keys of a parsed object
ObjectKeys(obj) == {obj.v[i].k : i \in 1..Len(obj.v)}

Absent == [t |-> "absent", v |-> <<>>]

\* the value of the last member of obj named key
Lookup(obj, key) ==
    LET idx == {i \in 1..Len(obj.v) : obj.v[i].k = key}
    IN  IF idx = {} THEN Absent
        ELSE obj.v[CHOOSE i \in idx : \A j \in idx : j <= i].v

GetString(obj, key) ==
    LET x == Lookup(obj, key) IN IF x.t = "str" THEN x.v ELSE <<>>

GetInt(obj, key) ==
    LET x == Lookup(obj, key) IN IF x.t = "num" THEN x.v ELSE 0

GetBool(obj, key) ==
    LET x == Lookup(obj, key) IN IF x.t = "bool" THEN x.v ELSE FALSE

GetArray(obj, key) ==
    LET x == Lookup(obj, key) IN IF x.t = "arr" THEN x.v ELSE <<>>

StringOf(x) == IF x.t = "str" THEN x.v ELSE <<>>

DecodeAttachmentField(x) ==
    [Title |-> GetString(x, K_title),
     Value |-> GetString(x, K_value),
     Short |-> GetBool(x, K_short)]

DecodeAttachment(x) ==
    [Fallback |-> GetString(x, K_fallback),
     Color |-> GetString(x, K_color),
     Pretext |-> GetString(x, K_pretext),
     AuthorName |-> GetString(x, K_author_name),
     AuthorLink |-> GetString(x, K_author_link),
     AuthorIcon |-> GetString(x, K_author_icon),
     Title |-> GetString(x, K_title),
     TitleLink |-> GetString(x, K_title_link),
     Text |-> GetString(x, K_text),
     Fields |-> Map(DecodeAttachmentField, GetArray(x, K_fields)),
     ImageURL |-> GetString(x, K_image_url),
     ThumbURL |-> GetString(x, K_thumb_url),
     Footer |-> GetString(x, K_footer),
     FooterIcon |-> GetString(x, K_footer_icon),
     Timestamp |-> GetInt(x, K_ts),
     MrkdwnIn |-> Map(StringOf, GetArray(x, K_mrkdwn_in))]

DecodeMessage(x) ==
    [Username |-> GetString(x, K_username),
     Channel |-> GetString(x, K_channel),
     IconEmoji |-> GetString(x, K_icon_emoji),
     IconURL |-> GetString(x, K_icon_url),
     Text |-> GetString(x, K_text),
     Attachments |-> Map(DecodeAttachment, GetArray(x, K_attachments))]

\* the JSON value at the start of data; what follows it must be white space
Parse(data) ==
    LET r == ParseValue(data, 1)
    IN  IF SkipSpace(data, r.i) = Len(data) + 1 THEN r.v ELSE Absent

Unmarshal(data) == DecodeMessage(Parse(data))

(***************************************************************************)
(* Values of the three struct types.                                       *)
(***************************************************************************)
ZeroAttachmentField == [Title |-> <<>>, Value |-> <<>>, Short |-> FALSE]

ZeroAttachment ==
    [Fallback |-> <<>>, Color |-> <<>>, Pretext |-> <<>>, AuthorName |-> <<>>,
     AuthorLink |-> <<>>, AuthorIcon |-> <<>>, Title |-> <<>>, TitleLink |-> <<>>,
     Text |-> <<>>, Fields |-> <<>>, ImageURL |-> <<>>, ThumbURL |-> <<>>,
     Footer |-> <<>>, FooterIcon |-> <<>>, Timestamp |-> 0, MrkdwnIn |-> <<>>]

ZeroMessage ==
    [Username |-> <<>>, Channel |-> <<>>, IconEmoji |-> <<>>, IconURL |-> <<>>,
     Text |-> <<>>, Attachments |-> <<>>]

HelloMessage == [ZeroMessage EXCEPT !.Text = <<"h", "e", "l", "l", "o">>]

\* the symbols strings are drawn from
Alphabet == {"a", "\"", "\\", "\n", "<", "xFF", "U+FFFD"}

\* a Go string holding xFF is not valid UTF-8
ValidUTF8(s) == \A i \in 1..Len(s) : s[i] # "xFF"

StringsOfLen(n) == [1..n -> Alphabet]

StringFieldNames == {"Username", "Channel", "IconEmoji", "IconURL", "Text"}

RECURSIVE SumOver(_, _)
SumOver(f, S) ==
    IF S = {} THEN 0
    ELSE LET x == CHOOSE y \in S : TRUE IN f[x] + SumOver(f, S \ {x})

LengthVectors ==
    {l \in [StringFieldNames -> 0..MaxChars] : SumOver(l, StringFieldNames) <= MaxChars}

\* every Message without attachments whose strings hold at most MaxChars symbols
PlainMessages ==
    UNION { { [Username |-> u, Channel |-> ch, IconEmoji |-> ie, IconURL |-> iu,
               Text |-> t, Attachments |-> <<>>] :
                 u \in StringsOfLen(l.Username), ch \in StringsOfLen(l.Channel),
                 ie \in StringsOfLen(l.IconEmoji), iu \in StringsOfLen(l.IconURL),
                 t \in StringsOfLen(l.Text) } : l \in LengthVectors }

AttachmentKeys ==
    {K_fallback, K_color, K_pretext, K_author_name, K_author_link, K_author_icon,
     K_title, K_title_link, K_text, K_fields, K_image_url, K_thumb_url, K_footer,
     K_footer_icon, K_ts, K_mrkdwn_in}

SomeString(k, S) == IF k \in S THEN <<"a">> ELSE <<>>

AttachmentFieldValues ==
    [Title : {<<>>, <<"a">>}, Value : {<<>>, <<"<">>}, Short : BOOLEAN]

FieldLists == UNION {[1..n -> AttachmentFieldValues] : n \in 1..MaxFields}

\* the attachments whose non-zero fields are exactly those keyed by S
AttachmentsWith(S) ==
    { [Fallback |-> SomeString(K_fallback, S), Color |-> SomeString(K_color, S),
       Pretext |-> SomeString(K_pretext, S),
       AuthorName |-> SomeString(K_author_name, S),
       AuthorLink |-> SomeString(K_author_link, S),
       AuthorIcon |-> SomeString(K_author_icon, S),
       Title |-> SomeString(K_title, S), TitleLink |-> SomeString(K_title_link, S),
       Text |-> SomeString(K_text, S), Fields |-> fs,
       ImageURL |-> SomeString(K_image_url, S),
       ThumbURL |-> SomeString(K_thumb_url, S),
       Footer |-> SomeString(K_footer, S),
       FooterIcon |-> SomeString(K_footer_icon, S),
       Timestamp |-> ts, MrkdwnIn |-> mk] :
         fs \in IF K_fields \in S THEN FieldLists ELSE {<<>>},
         ts \in IF K_ts \in S THEN {-1, 1500000000} ELSE {0},
         mk \in IF K_mrkdwn_in \in S
                THEN {<< K_text >>, << K_pretext, K_fields >>} ELSE {<<>>} }

AttachmentValues ==
    UNION {AttachmentsWith(S) :
             S \in {T \in SUBSET AttachmentKeys : Cardinality(T) <= MaxSetFields}}

\* messages carrying attachments
RichMessages ==
    { [ZeroMessage EXCEPT !.Text = t, !.Attachments = as] :
        t \in {<<>>, <<"a">>},
        as \in {<<a>> : a \in AttachmentValues}
               \cup {<<ZeroAttachment, a>> : a \in AttachmentValues} }

Messages == PlainMessages \cup RichMessages \cup {HelloMessage}

(***************************************************************************)
(* State.                                                                  *)
(*   c        the Client the callers share                                 *)
(*   pc       where each caller's Send is: "idle", the line it is about    *)
(*            to run, or "done" after it returned                          *)
(*   recv     the receiver of the call: "shared" for c, or the transient   *)
(*            Client the package-level Send builds                         *)
(*   message  the argument of the call                                     *)
(*   b, hc, resp, err   the locals of Send (err: what Post returned)       *)
(*   ret      the error Send returned                                      *)
(*   reqs     the requests the call handed to the HTTP client              *)
(*   trace    the steps the call has taken                                 *)
(*   value, data, back, stage   a Message, its encoding and what decoding  *)
(*            the encoding gives, for the JSON mapping on its own          *)
(***************************************************************************)
VARIABLES c, pc, recv, message, b, hc, resp, err, ret, reqs, trace,
          value, data, back, stage

vars == <<c, pc, recv, message, b, hc, resp, err, ret, reqs, trace,
          value, data, back, stage>>

sendVars == <<c, pc, recv, message, b, hc, resp, err, ret, reqs, trace>>

jsonVars == <<value, data, back, stage>>

Callers == {"g1", "g2"}

URLs == {"https://hooks.example/A", "https://hooks.example/B"}

NilHTTPClient == "nil"
CustomHTTPClient == "custom"
DefaultClient == "http.DefaultClient"

\* the shared Client: its URL differs from one of those the package-level
\* Send is called with
Clients ==
    [WebhookURL : {"https://hooks.example/A"},
     HTTPClient : {NilHTTPClient, CustomHTTPClient}]

\* a pointer to a Message, or nil
Nil == [nil |-> TRUE, v |-> ZeroMessage]
Ptr(m) == [nil |-> FALSE, v |-> m]
IsNil(p) == p.nil

QuoteMessage == [ZeroMessage EXCEPT !.Text = <<"\"">>, !.Attachments =
    << [ZeroAttachment EXCEPT !.Fields = <<[ZeroAttachmentField EXCEPT !.Short = TRUE]>>] >>]

\* the arguments Send is called with
SendArguments == {Nil, Ptr(HelloMessage), Ptr(QuoteMessage)}

(***************************************************************************)
(* The HTTP client: what Post can return.                                  *)
(***************************************************************************)
StatusText ==
    [sc \in {101, 200, 299, 300, 404} |->
        CASE sc = 101 -> "101 Switching Protocols"
          [] sc = 200 -> "200 OK"
          [] sc = 299 -> "299 "
          [] sc = 300 -> "300 Multiple Choices"
          [] sc = 404 -> "404 Not Found"]

StatusCodes == DOMAIN StatusText

NoError == ""

NoReadError == ""

\* a response body stream: the chunks it holds, how many were read, the
\* number of chunks after which reading fails (-1: reading reaches EOF)
Body(chunks, failAt, readErr) ==
    [chunks |-> chunks, failAt |-> failAt, readErr |-> readErr, pos |-> 0,
     closed |-> FALSE]

Bodies ==
    { Body(<<"ok">>, -1, NoReadError),
      Body(<<"invalid_", "payload">>, -1, NoReadError),
      Body(<<"invalid_", "payload">>, 1, "unexpected EOF") }

Responses ==
    { [got |-> TRUE, StatusCode |-> sc, Status |-> StatusText[sc], Body |-> bd] :
        sc \in StatusCodes, bd \in Bodies }

NoResponse ==
    [got |-> FALSE, StatusCode |-> 0, Status |-> "", Body |-> Body(<<>>, -1, NoReadError)]

TransportErrors == {"dial tcp: connection refused", "net/http: request canceled"}

(***************************************************************************)
(* Errors.  fmt.Errorf gives an error whose text is the format with the    *)
(* operands in place; the text is kept as its pieces in order.             *)
(***************************************************************************)
NilError == [nil |-> TRUE, text |-> <<>>]

Errorf(pieces) == [nil |-> FALSE, text |-> pieces]

Contains(e, piece) == \E i \in 1..Len(e.text) : e.text[i] = piece

\* the pieces b occur in e, in order and adjacent
ContainsAll(e, bs) ==
    \E i \in 0..(Len(e.text) - Len(bs)) : SubSeq(e.text, i + 1, i + Len(bs)) = bs

\* the error condition of the specification an error stands for
Kind(e) ==
    IF e.nil THEN "none"
    ELSE CASE Head(e.text) = "message is nil" -> "InvalidInput"
           [] Head(e.text) = "Could not encode the message to JSON: " -> "EncodingFailure"
           [] Head(e.text) = "Could not send the request: " -> "TransportFailure"
           [] Head(e.text) = "Slack API returned " -> "RemoteRejected"
           [] OTHER -> "other"

(***************************************************************************)
(* Client.Send, one step per statement.                                    *)
(***************************************************************************)
\* the Client a call's receiver points to
Receiver(p) == IF recv[p].shared THEN c ELSE recv[p].client

Shared == [shared |-> TRUE, client |-> [WebhookURL |-> "", HTTPClient |-> NilHTTPClient]]

\* &Client{WebhookURL: WebhookURL}
Transient(url) ==
    [shared |-> FALSE, client |-> [WebhookURL |-> url, HTTPClient |-> NilHTTPClient]]

Enter(p, r, m) ==
    /\ pc[p] \in {"idle", "done"}
    /\ pc' = [pc EXCEPT ![p] = "nilcheck"]
    /\ recv' = [recv EXCEPT ![p] = r]
    /\ message' = [message EXCEPT ![p] = m]
    /\ b' = [b EXCEPT ![p] = <<>>]
    /\ hc' = [hc EXCEPT ![p] = NilHTTPClient]
    /\ resp' = [resp EXCEPT ![p] = NoResponse]
    /\ err' = [err EXCEPT ![p] = NoError]
    /\ ret' = [ret EXCEPT ![p] = NilError]
    /\ reqs' = [reqs EXCEPT ![p] = <<>>]
    /\ trace' = [trace EXCEPT ![p] = <<>>]
    /\ UNCHANGED <<c, jsonVars>>

\* a caller calls c.Send(m)
ClientSend(p, m) == Enter(p, Shared, m)

\* a caller calls the package-level Send(url, m)
PackageSend(p, url, m) == Enter(p, Transient(url), m)

Step(p, label) == trace' = [trace EXCEPT ![p] = Append(@, label)]

Return(p, e) ==
    /\ pc' = [pc EXCEPT ![p] = "done"]
    /\ ret' = [ret EXCEPT ![p] = e]

NilCheckMissing(p) ==
    /\ pc[p] = "nilcheck"
    /\ Step(p, "nilcheck")
    /\ pc' = [pc EXCEPT ![p] = "encode"]
    /\ UNCHANGED <<c, recv, message, b, hc, resp, err, ret, reqs, jsonVars>>

\* if message == nil { return fmt.Errorf("message is nil") }
NilCheck(p) ==
    /\ pc[p] = "nilcheck"
    /\ Step(p, "nilcheck")
    /\ IF IsNil(message[p])
       THEN Return(p, Errorf(<<"message is nil">>))
       ELSE pc' = [pc EXCEPT ![p] = "encode"] /\ UNCHANGED ret
    /\ UNCHANGED <<c, recv, message, b, hc, resp, err, reqs, jsonVars>>

\* Encode of a *Message: a nil pointer is written as the JSON null
PointerEncode(m) ==
    IF IsNil(m) THEN <<"n", "u", "l", "l", "\n">> ELSE Encode(m.v)

\* json.NewEncoder(&b).Encode(message); it cannot fail for the field types
\* of Message, so the error return that follows it is never taken
EncodeStep(p) ==
    /\ pc[p] = "encode"
    /\ Step(p, "encode")
    /\ b' = [b EXCEPT ![p] = PointerEncode(message[p])]
    /\ pc' = [pc EXCEPT ![p] = "select"]
    /\ UNCHANGED <<c, recv, message, hc, resp, err, ret, reqs, jsonVars>>

SelectClientStoringDefault(p) ==
    /\ pc[p] = "select"
    /\ Step(p, "select")
    /\ hc' = [hc EXCEPT ![p] = IF Receiver(p).HTTPClient = NilHTTPClient
                               THEN DefaultClient ELSE Receiver(p).HTTPClient]
    /\ c' = IF recv[p].shared /\ c.HTTPClient = NilHTTPClient
            THEN [c EXCEPT !.HTTPClient = DefaultClient] ELSE c
    /\ pc' = [pc EXCEPT ![p] = "post"]
    /\ UNCHANGED <<recv, message, b, resp, err, ret, reqs, jsonVars>>

\* hc := c.HTTPClient; if hc == nil { hc = http.DefaultClient }
SelectClient(p) ==
    /\ pc[p] = "select"
    /\ Step(p, "select")
    /\ hc' = [hc EXCEPT ![p] = IF Receiver(p).HTTPClient = NilHTTPClient
                               THEN DefaultClient ELSE Receiver(p).HTTPClient]
    /\ pc' = [pc EXCEPT ![p] = "post"]
    /\ UNCHANGED <<c, recv, message, b, resp, err, ret, reqs, jsonVars>>

Request(p) ==
    [Via |-> hc[p], Method |-> "POST", URL |-> Receiver(p).WebhookURL,
     ContentType |-> "application/json", Body |-> b[p]]

PostRetrying(p) ==
    /\ pc[p] = "post"
    /\ Step(p, "post")
    /\ reqs' = [reqs EXCEPT ![p] = Append(@, Request(p))]
    /\ \/ /\ \E e \in TransportErrors :
               /\ err' = [err EXCEPT ![p] = e]
               /\ IF reqs[p] = <<>>
                  THEN UNCHANGED <<pc, ret>>
                  ELSE Return(p, Errorf(<<"Could not send the request: ", e>>))
          /\ UNCHANGED resp
       \/ /\ \E r \in Responses : resp' = [resp EXCEPT ![p] = r]
          /\ pc' = [pc EXCEPT ![p] = "status"]
          /\ UNCHANGED <<err, ret>>
    /\ UNCHANGED <<c, recv, message, b, hc, jsonVars>>

PostClosingBeforeCheck(p) ==
    /\ pc[p] = "post"
    /\ reqs' = [reqs EXCEPT ![p] = Append(@, Request(p))]
    /\ \/ /\ \E e \in TransportErrors :
               /\ err' = [err EXCEPT ![p] = e]
               /\ Return(p, Errorf(<<"Could not send the request: ", e>>))
          /\ trace' = [trace EXCEPT ![p] = @ \o <<"post", "close">>]
          /\ UNCHANGED resp
       \/ /\ \E r \in Responses : resp' = [resp EXCEPT ![p] = r]
          /\ Step(p, "post")
          /\ pc' = [pc EXCEPT ![p] = "status"]
          /\ UNCHANGED <<err, ret>>
    /\ UNCHANGED <<c, recv, message, b, hc, jsonVars>>

\* resp, err := hc.Post(c.WebhookURL, "application/json", &b)
\* if err != nil { return fmt.Errorf("Could not send the request: %s", err) }
Post(p) ==
    /\ pc[p] = "post"
    /\ Step(p, "post")
    /\ reqs' = [reqs EXCEPT ![p] = Append(@, Request(p))]
    /\ \/ /\ \E e \in TransportErrors :
               /\ err' = [err EXCEPT ![p] = e]
               /\ Return(p, Errorf(<<"Could not send the request: ", e>>))
          /\ UNCHANGED resp
       \/ /\ \E r \in Responses : resp' = [resp EXCEPT ![p] = r]
          /\ pc' = [pc EXCEPT ![p] = "status"]
          /\ UNCHANGED <<err, ret>>
    /\ UNCHANGED <<c, recv, message, b, hc, jsonVars>>

\* the deferred resp.Body.Close()
Closed(r) == [r EXCEPT !.Body.closed = TRUE]

\* if resp.StatusCode >= 300 { ... }; return nil
CheckStatus(p) ==
    /\ pc[p] = "status"
    /\ IF resp[p].StatusCode >= 300
       THEN /\ pc' = [pc EXCEPT ![p] = "readall"]
            /\ Step(p, "status")
            /\ UNCHANGED <<resp, ret>>
       ELSE /\ Return(p, NilError)
            /\ resp' = [resp EXCEPT ![p] = Closed(@)]
            /\ trace' = [trace EXCEPT ![p] = @ \o <<"status", "close">>]
    /\ UNCHANGED <<c, recv, message, b, hc, err, reqs, jsonVars>>

\* ioutil.ReadAll(resp.Body): everything up to EOF, or the read error
ReadAllResult(bd) ==
    IF bd.failAt = -1
    THEN [data |-> bd.chunks, err |-> NoReadError, pos |-> Len(bd.chunks)]
    ELSE [data |-> SubSeq(bd.chunks, 1, bd.failAt), err |-> bd.readErr,
          pos |-> bd.failAt]

RejectedErrorBareReadError(r, rd) ==
    IF rd.err # NoReadError
    THEN Errorf(<<rd.err>>)
    ELSE Errorf(<<"Slack API returned ", r.Status, ": ">> \o rd.data)

\* the two fmt.Errorf of the status >= 300 branch
RejectedError(r, rd) ==
    IF rd.err # NoReadError
    THEN Errorf(<<"Slack API returned ", r.Status, " (could not read body: ",
                  rd.err, ")">>)
    ELSE Errorf(<<"Slack API returned ", r.Status, ": ">> \o rd.data)

\* b, err := ioutil.ReadAll(resp.Body) and the return that follows it
ReadAll(p) ==
    /\ pc[p] = "readall"
    /\ LET rd == ReadAllResult(resp[p].Body)
       IN  /\ Return(p, RejectedError(resp[p], rd))
           /\ resp' = [resp EXCEPT ![p] = Closed([@ EXCEPT !.Body.pos = rd.pos])]
    /\ trace' = [trace EXCEPT ![p] = @ \o <<"readall", "close">>]
    /\ UNCHANGED <<c, recv, message, b, hc, err, reqs, jsonVars>>

(***************************************************************************)
(* The JSON mapping on its own: a Message is encoded, the encoding decoded.*)
(***************************************************************************)
EncodeValue ==
    /\ stage = "input"
    /\ data' = Encode(value)
    /\ stage' = "encoded"
    /\ UNCHANGED <<value, back, sendVars>>

DecodeData ==
    /\ stage = "encoded"
    /\ back' = Unmarshal(data)
    /\ stage' = "decoded"
    /\ UNCHANGED <<value, data, sendVars>>

(***************************************************************************)
(* Specifications.                                                         *)
(***************************************************************************)
SendIdle ==
    /\ pc = [p \in Callers |-> "idle"]
    /\ recv = [p \in Callers |-> Shared]
    /\ message = [p \in Callers |-> Nil]
    /\ b = [p \in Callers |-> <<>>]
    /\ hc = [p \in Callers |-> NilHTTPClient]
    /\ resp = [p \in Callers |-> NoResponse]
    /\ err = [p \in Callers |-> NoError]
    /\ ret = [p \in Callers |-> NilError]
    /\ reqs = [p \in Callers |-> <<>>]
    /\ trace = [p \in Callers |-> <<>>]

Init ==
    /\ c \in Clients
    /\ SendIdle
    /\ value = ZeroMessage
    /\ data = <<>>
    /\ back = ZeroMessage
    /\ stage = "off"

Next ==
    \E p \in Callers :
        \/ \E m \in SendArguments : ClientSend(p, m)
        \/ \E url \in URLs, m \in SendArguments : PackageSend(p, url, m)
        \/ NilCheck(p)
        \/ EncodeStep(p)
        \/ SelectClient(p)
        \/ Post(p)
        \/ CheckStatus(p)
        \/ ReadAll(p)

Spec == Init /\ [][Next]_vars

JSONInit ==
    /\ c = [WebhookURL |-> "https://hooks.example/A", HTTPClient |-> NilHTTPClient]
    /\ SendIdle
    /\ value \in Messages
    /\ data = <<>>
    /\ back = ZeroMessage
    /\ stage = "input"

JSONNext == EncodeValue \/ DecodeData

JSONSpec == JSONInit /\ [][JSONNext]_vars

(***************************************************************************)
(* Properties.                                                             *)
(***************************************************************************)
Returned(p) == pc[p] = "done"

\* the request a returned call handed to the HTTP client
TheRequest(p) == reqs[p][1]

HelloJSON ==
    <<"{", "\"", "t", "e", "x", "t", "\"", ":",
      "\"", "h", "e", "l", "l", "o", "\"", "}">>

\* C1: Send called with a nil message returns the InvalidInput error
\* ("message is nil") having run nothing but the nil check: nothing was
\* encoded and no request was handed to any HTTP client, whatever the
\* receiver's WebhookURL and HTTPClient are.
C1_NilMessageNoRequest ==
    \A p \in Callers :
        IsNil(message[p]) =>
            /\ reqs[p] = <<>>
            /\ b[p] = <<>>
            /\ ~resp[p].got
            /\ Returned(p) =>
                 /\ Kind(ret[p]) = "InvalidInput"
                 /\ trace[p] = <<"nilcheck">>

C1_Witness ==
    \E p \in Callers :
        /\ Returned(p) /\ IsNil(message[p])
        /\ recv[p].shared /\ c.HTTPClient = CustomHTTPClient

\* C2: a Send with a non-nil message never hands more than one request to
\* the HTTP client, and when it has returned (with success, a transport
\* failure or a rejected status) it has handed over exactly one: a POST to
\* the receiver's WebhookURL, content type application/json, whose body is
\* the encoded message.
C2_ExactlyOneRequest ==
    \A p \in Callers :
        /\ Len(reqs[p]) <= 1
        /\ (Returned(p) /\ ~IsNil(message[p])) =>
              /\ Len(reqs[p]) = 1
              /\ TheRequest(p).Method = "POST"
              /\ TheRequest(p).URL = Receiver(p).WebhookURL
              /\ TheRequest(p).ContentType = "application/json"
              /\ TheRequest(p).Body = Encode(message[p].v)

C2_Witness ==
    \E p \in Callers :
        /\ Returned(p) /\ ~IsNil(message[p])
        /\ err[p] # NoError /\ Len(reqs[p]) = 1

\* C3: when the HTTP client returned a response, Send returns no error
\* exactly if the status code is in [200,300), and a RemoteRejected error
\* for every other status code.
C3_SuccessIffStatus2xx ==
    \A p \in Callers :
        (Returned(p) /\ resp[p].got) =>
            /\ ret[p].nil <=> resp[p].StatusCode \in 200..299
            /\ ~ret[p].nil => Kind(ret[p]) = "RemoteRejected"

\* C4 as stated: the request body is exactly the JSON encoding of the Message,
\* with nothing before or after it; for Message{Text: "hello"} the body is
\* exactly {"text":"hello"}.
C4_BodyIsExactlyTheJSON ==
    \A p \in Callers :
        reqs[p] # <<>> =>
            /\ TheRequest(p).Body = Marshal(message[p].v)
            /\ message[p] = Ptr(HelloMessage) => TheRequest(p).Body = HelloJSON

\* C4 (amended): the request body is the JSON encoding of the Message
\* followed by exactly one newline character, with nothing before it and
\* nothing else after it; for Message{Text: "hello"} the body is
\* {"text":"hello"} followed by a newline.
C4_BodyIsTheJSONAndANewline ==
    \A p \in Callers :
        reqs[p] # <<>> =>
            /\ TheRequest(p).Body = Marshal(message[p].v) \o <<"\n">>
            /\ message[p] = Ptr(HelloMessage) =>
                  TheRequest(p).Body = HelloJSON \o <<"\n">>

C4_Witness ==
    \E p \in Callers :
        /\ Returned(p) /\ message[p] = Ptr(HelloMessage)
        /\ reqs[p] # <<>> /\ ret[p].nil

\* nothing is left to read from the body: it was read up to EOF, or up to
\* the point where reading it fails
Drained(bd) ==
    bd.pos = IF bd.failAt = -1 THEN Len(bd.chunks) ELSE bd.failAt

\* C5: whenever Send has returned after the HTTP client produced a response
\* (success status, rejected status with readable or unreadable body), the
\* response body has been drained and closed.
C5_BodyDrainedAndClosed ==
    \A p \in Callers :
        (Returned(p) /\ resp[p].got) =>
            /\ resp[p].Body.closed
            /\ Drained(resp[p].Body)

C7_TransportFailure ==
    \A p \in Callers :
        (Returned(p) /\ err[p] # NoError) =>
            /\ Kind(ret[p]) = "TransportFailure"
            /\ Contains(ret[p], err[p])
            /\ trace[p] = <<"nilcheck", "encode", "select", "post">>
            /\ resp[p] = NoResponse

C7_Witness ==
    \E p \in Callers :
        /\ Returned(p) /\ err[p] = "dial tcp: connection refused"
        /\ hc[p] = DefaultClient /\ ~recv[p].shared

\* the keys the claim says the encoding of each struct has
MessageKeysClaimed(m) ==
    {k \in {K_username, K_channel, K_icon_emoji, K_icon_url, K_text, K_attachments} :
        \/ k = K_username /\ m.Username # <<>>
        \/ k = K_channel /\ m.Channel # <<>>
        \/ k = K_icon_emoji /\ m.IconEmoji # <<>>
        \/ k = K_icon_url /\ m.IconURL # <<>>
        \/ k = K_text /\ m.Text # <<>>
        \/ k = K_attachments /\ m.Attachments # <<>>}

AttachmentKeysClaimed(a) ==
    {k \in AttachmentKeys :
        \/ k = K_fallback /\ a.Fallback # <<>>
        \/ k = K_color /\ a.Color # <<>>
        \/ k = K_pretext /\ a.Pretext # <<>>
        \/ k = K_author_name /\ a.AuthorName # <<>>
        \/ k = K_author_link /\ a.AuthorLink # <<>>
        \/ k = K_author_icon /\ a.AuthorIcon # <<>>
        \/ k = K_title /\ a.Title # <<>>
        \/ k = K_title_link /\ a.TitleLink # <<>>
        \/ k = K_text /\ a.Text # <<>>
        \/ k = K_fields /\ a.Fields # <<>>
        \/ k = K_image_url /\ a.ImageURL # <<>>
        \/ k = K_thumb_url /\ a.ThumbURL # <<>>
        \/ k = K_footer /\ a.Footer # <<>>
        \/ k = K_footer_icon /\ a.FooterIcon # <<>>
        \/ k = K_ts /\ a.Timestamp # 0
        \/ k = K_mrkdwn_in /\ a.MrkdwnIn # <<>>}

AttachmentFieldKeysClaimed(f) ==
    {k \in {K_title, K_value, K_short} :
        \/ k = K_title /\ f.Title # <<>>
        \/ k = K_value /\ f.Value # <<>>
        \/ k = K_short /\ f.Short}

\* the objects of the parsed encoding x carry the claimed keys, at every level
KeysAsClaimed(m, x) ==
    /\ x.t = "obj"
    /\ ObjectKeys(x) = MessageKeysClaimed(m)
    /\ LET xs == GetArray(x, K_attachments)
       IN  /\ Len(xs) = Len(m.Attachments)
           /\ \A i \in 1..Len(xs) :
                /\ xs[i].t = "obj"
                /\ ObjectKeys(xs[i]) = AttachmentKeysClaimed(m.Attachments[i])
                /\ LET fs == GetArray(xs[i], K_fields)
                   IN  /\ Len(fs) = Len(m.Attachments[i].Fields)
                       /\ \A j \in 1..Len(fs) :
                            /\ fs[j].t = "obj"
                            /\ ObjectKeys(fs[j]) =
                                 AttachmentFieldKeysClaimed(m.Attachments[i].Fields[j])

\* C8: in the encoding of a Message, of each of its Attachments and of each
\* of their AttachmentFields, a key is present exactly if its field is
\* non-zero (non-empty string, non-empty sequence, non-zero timestamp, true
\* boolean); the Message with all fields empty is written as {} (the
\* encoder ends what it writes with a newline).
C8_KeyPresentIffNonZero ==
    stage \in {"encoded", "decoded"} =>
        /\ KeysAsClaimed(value, Parse(data))
        /\ value = ZeroMessage => data = <<"{", "}", "\n">>

C8_Witness ==
    /\ stage = "encoded"
    /\ Len(value.Attachments) = 2
    /\ value.Attachments[1] = ZeroAttachment
    /\ value.Attachments[2].Timestamp = 0
    /\ Len(value.Attachments[2].Fields) = 1
    /\ value.Attachments[2].Fields[1].Short
    /\ value.Attachments[2].Fields[1].Title = <<>>

StringFieldsOf(m) == {m.Username, m.Channel, m.IconEmoji, m.IconURL, m.Text}

\* C9 as stated: every Message without attachments is got back unchanged by
\* encoding it and decoding the encoding (written fields equal, omitted
\* fields empty).
C9_RoundTrip ==
    (stage = "decoded" /\ value.Attachments = <<>>) => back = value

\* C9 (amended): every Message without attachments whose strings are valid
\* UTF-8 is got back unchanged by encoding it and decoding the encoding
\* (written fields equal, omitted fields empty).
C9_RoundTripValidUTF8 ==
    ( /\ stage = "decoded"
      /\ value.Attachments = <<>>
      /\ \A s \in StringFieldsOf(value) : ValidUTF8(s) ) => back = value

C9_Witness ==
    /\ stage = "decoded"
    /\ value.Attachments = <<>>
    /\ value.Text = <<"\"", "<">>
    /\ back = value

\* what the transport gave a call
TransportResult(p) ==
    [err |-> err[p], got |-> resp[p].got, StatusCode |-> resp[p].StatusCode,
     Status |-> resp[p].Status, chunks |-> resp[p].Body.chunks,
     failAt |-> resp[p].Body.failAt, readErr |-> resp[p].Body.readErr]

FrameOfSend ==
    /\ c' = c
    /\ \A p \in Callers :
         pc[p] \notin {"idle", "done"} =>
            /\ message'[p] = message[p]
            /\ recv'[p] = recv[p]

OutcomeOwnInputsOnly ==
    \A p, q \in Callers :
        ( /\ Returned(p) /\ Returned(q)
          /\ message[p] = message[q]
          /\ TransportResult(p) = TransportResult(q) ) => ret[p] = ret[q]

DefaultNeverStored ==
    \A p \in Callers :
        /\ c.HTTPClient # DefaultClient
        /\ (reqs[p] # <<>> /\ Receiver(p).HTTPClient = NilHTTPClient) =>
              TheRequest(p).Via = DefaultClient

\* C10: no step of any Send, in any interleaving of the callers, changes the
\* shared Client (WebhookURL and HTTPClient keep their values; a nil
\* HTTPClient stays nil while the calls use the default client), the
\* message or the receiver of a call in progress; and two returned calls
\* with equal messages and equal transport results returned the same error.
C10_SendChangesNothing ==
    /\ [][FrameOfSend]_vars
    /\ [](OutcomeOwnInputsOnly /\ DefaultNeverStored)

C10_Witness ==
    \E p, q \in Callers :
        /\ p # q
        /\ c.HTTPClient = NilHTTPClient
        /\ Returned(p) /\ recv[p].shared /\ hc[p] = DefaultClient
        /\ pc[q] = "post" /\ recv[q].shared

====
